---- MODULE Spec2Model ----
(***************************************************************************)
(* vcf_parser: Genotype (genotype.py), split_variants                      *)
(* (utils/split_variants.py) and VCFParser (parser.py).                    *)
(*                                                                         *)
(* Python text that the code indexes or splits is a sequence of one-       *)
(* character strings (<<"0", "/", "1">> is '0/1'); text the code only      *)
(* passes along is a TLA+ string.                                          *)
(***************************************************************************)
EXTENDS Integers, Sequences, FiniteSets, TLC

VARIABLES
    GT,             \* Genotype: the GT argument of the constructor call
    genotype_obj,   \* Genotype: the constructed object, NoObject before the call
    variant_dict,   \* split_variants: the source record (argument)
    metadata,       \* split_variants: the metadata argument (None or a header)
    gen,            \* split_variants: the generator (state, loop index, locals)
    yielded,        \* split_variants: the records the consumer has received
    vcf,            \* VCFParser: the lines of the input and the read position
    parser,         \* VCFParser: the object's fields, NoObject before __init__
    it              \* VCFParser: the generator of __iter__ and what it yielded

gvars == <<GT, genotype_obj>>
svars == <<variant_dict, metadata, gen, yielded>>
pvars == <<vcf, parser, it>>
vars == <<GT, genotype_obj, variant_dict, metadata, gen, yielded, vcf, parser, it>>

NoObject == [none |-> TRUE]
\* Python's None, and a dictionary key that is not there.
None == [is_none |-> TRUE]
Absent == "<absent>"

(***************************************************************************)
(* Bounds                                                                  *)
(***************************************************************************)
MaxTokenLen == 3    \* longest GT token given to Genotype
MaxAlts == 3        \* most alternative alleles of a source record
MaxInfo == 2        \* most keys of a source record's info_dict
MaxValues == 3      \* longest value list of an info_dict key
MaxLines == 3       \* most non-header lines of an input

(***************************************************************************)
(* Text helpers                                                            *)
(***************************************************************************)
RECURSIVE SplitFrom(_, _, _, _)
\* str.split(sep) from position i on, cur being the piece collected so far.
SplitFrom(s, sep, i, cur) ==
    IF i > Len(s) THEN <<cur>>
    ELSE IF s[i] = sep THEN <<cur>> \o SplitFrom(s, sep, i + 1, <<>>)
    ELSE SplitFrom(s, sep, i + 1, Append(cur, s[i]))

\* str.split(sep) with a one-character separator: always at least one piece.
StrSplit(s, sep) == SplitFrom(s, sep, 1, <<>>)

RECURSIVE StrJoin(_, _)
\* sep.join(pieces)
StrJoin(pieces, sep) ==
    IF Len(pieces) = 0 THEN <<>>
    ELSE IF Len(pieces) = 1 THEN pieces[1]
    ELSE pieces[1] \o <<sep>> \o StrJoin(Tail(pieces), sep)

\* Python sequence[i] with i >= 0: the element, or an IndexError.
InRange(seq, i) == i + 1 <= Len(seq)
At(seq, i) == seq[i + 1]

(***************************************************************************)
(* genotype.py                                                             *)
(***************************************************************************)
GTChars == {"0", "1", "2", ".", "/", "|"}
GTTokens == UNION {[1..n -> GTChars] : n \in 1..MaxTokenLen}

\* Mutant of ZygosityOf: the homo_alt test is an 'if', not an 'elif', so that
\* '0/0' is homo_ref and homo_alt at once.
ZygosityOf_if(allele_1, allele_2) ==
    LET genotype == allele_1 \o <<"/">> \o allele_2
        genotyped == genotype # <<".", "/", ".">>
        homo_ref == genotyped /\ genotype = <<"0", "/", "0">>
        homo_alt == genotyped /\ allele_1 = allele_2
        heterozygote == genotyped /\ ~homo_ref /\ ~homo_alt
    IN  [genotype |-> genotype, genotyped |-> genotyped, homo_ref |-> homo_ref,
         homo_alt |-> homo_alt, heterozygote |-> heterozygote,
         has_variant |-> homo_alt \/ heterozygote]

\* Lines 67-79: the canonical genotype string and the flags set from it.
ZygosityOf(allele_1, allele_2) ==
    LET genotype == allele_1 \o <<"/">> \o allele_2
        genotyped == genotype # <<".", "/", ".">>
        homo_ref == genotyped /\ genotype = <<"0", "/", "0">>
        homo_alt == genotyped /\ ~homo_ref /\ allele_1 = allele_2
        heterozygote == genotyped /\ ~homo_ref /\ ~homo_alt
    IN  [genotype |-> genotype, genotyped |-> genotyped, homo_ref |-> homo_ref,
         homo_alt |-> homo_alt, heterozygote |-> heterozygote,
         has_variant |-> homo_alt \/ heterozygote]

\* Genotype.__init__(GT=tok), the other arguments at their defaults
\* (AD='.,.', DP='0', GQ='0', PL=None), as a record of the object's fields.
Genotype(tok) ==
    LET phased == \E i \in 1..Len(tok) : tok[i] = "|"
        allele_1 == IF Len(tok) < 3 THEN tok ELSE <<tok[1]>>
        allele_2 == IF Len(tok) < 3 THEN <<".">> ELSE <<tok[Len(tok)]>>
        z == ZygosityOf(allele_1, allele_2)
    IN  [allele_1 |-> allele_1, allele_2 |-> allele_2, phased |-> phased,
         genotype |-> z.genotype, genotyped |-> z.genotyped,
         homo_ref |-> z.homo_ref, homo_alt |-> z.homo_alt,
         heterozygote |-> z.heterozygote, has_variant |-> z.has_variant,
         ref_depth |-> ".", alt_depth |-> ".",
         depth_of_coverage |-> 0, genotype_quality |-> 0,
         phred_likelihoods |-> <<>>]

GenotypeInit ==
    /\ GT \in GTTokens
    /\ genotype_obj = NoObject

\* The caller constructs Genotype(GT).
GenotypeCall ==
    /\ genotype_obj = NoObject
    /\ genotype_obj' = Genotype(GT)
    /\ UNCHANGED GT

(***************************************************************************)
(* utils/split_variants.py                                                 *)
(***************************************************************************)
NoError == ""

\* Lines 1-14: the names the module split_variants.py binds (its imports and
\* its one function). A name outside this set raises NameError when read.
SplitGlobals ==
    {"unicode_literals", "sys", "getLogger", "OrderedDict",
     "build_vep_string", "split_genotype", "split_variants"}

\* HeaderParser.extra_info of the header used here: key -> declared Number.
ExtraInfo == [AF |-> "A", AD |-> "R", DP |-> "1", CSQ |-> "."]
Header == [extra_info |-> ExtraInfo]

InfoKeys == {"AF", "AD", "DP", "CSQ", "XX", ""}
Values == <<"10", "20", "30", "40", "50">>
ValueLists == {SubSeq(Values, 1, n) : n \in 0..MaxValues}
InfoEntries == [key : InfoKeys, val : ValueLists]
\* An OrderedDict: a sequence of entries with distinct keys.
InfoDicts ==
    {d \in UNION {[1..n -> InfoEntries] : n \in 0..MaxInfo} :
        \A i, j \in 1..Len(d) : d[i].key = d[j].key => i = j}

Alleles == <<"A", "G", "T", "C">>
AltStrings == {StrJoin([i \in 1..k |-> <<Alleles[i]>>], ",") : k \in 1..MaxAlts}
IdStrings == {<<".">>, <<"a", ";", "b">>}
SampleMaps ==
    {<<>>} \cup {[s1 |-> tok] : tok \in {<<"1", "/", "2">>, <<"0", "|", "1">>}}

\* vep_info: allele -> its annotation entries; here none, or allele A's.
VepInfos ==
    {<<>>, [a \in {<<"A">>} |-> <<[Allele |-> "A", Consequence |-> "missense"]>>]}

\* A record as format_variant hands it to split_variants. A record without
\* samples has no FORMAT key.
SourceRecord(id, alt, info, vep, samples) ==
    [CHROM |-> <<"1">>, POS |-> <<"1", "0">>, ID |-> id, REF |-> <<"C">>,
     ALT |-> alt, QUAL |-> ".", FILTER |-> "PASS",
     FORMAT |-> IF samples = <<>> THEN Absent ELSE "GT",
     info_dict |-> info, vep_info |-> vep, samples |-> samples]

Keys(d) == {d[i].key : i \in 1..Len(d)}
Lookup(d, k) == (CHOOSE i \in 1..Len(d) : d[i].key = k)
ValueOf(d, k) == d[Lookup(d, k)].val

\* build_vep_string: one annotation per allele entry, sub-fields joined by '|',
\* entries joined by ','.
RECURSIVE build_vep_string(_)
build_vep_string(entries) ==
    IF Len(entries) = 0 THEN ""
    ELSE LET one == entries[1].Allele \o "|" \o entries[1].Consequence
         IN  IF Len(entries) = 1 THEN one
             ELSE one \o "," \o build_vep_string(Tail(entries))

\* The decimal text of a small allele index.
Digits == <<"1", "2", "3", "4", "5", "6", "7", "8", "9">>

\* split_genotype: the GT of a sample's token relative to alternative n. The
\* allele with index n+1 becomes 1, 0 stays 0, any other index becomes 0; the
\* missing marker and the separator are kept.
split_genotype(token, format, n) ==
    [i \in 1..Len(token) |->
        IF token[i] \in {"/", "|", ".", ":"} THEN token[i]
        ELSE IF token[i] = Digits[n + 1] THEN "1"
        ELSE "0"]

\* Lines 60-66: the declared Number of key info, or the error of the lookup.
\* The handler of the KeyError reads the unbound name 'logger' before it
\* re-raises.
NumberOf(md, info, number_of_values) ==
    IF md = None THEN [error |-> NoError, where |-> 0, number |-> number_of_values]
    ELSE IF info \in DOMAIN md.extra_info
        THEN [error |-> NoError, where |-> 0, number |-> md.extra_info[info]]
    ELSE IF "logger" \in SplitGlobals
        THEN [error |-> "KeyError", where |-> 66, number |-> number_of_values]
    ELSE [error |-> "NameError", where |-> 64, number |-> number_of_values]

\* info_dict[key] = val on the OrderedDict being built; obj names the list
\* object stored: the source's own list under the key (owner "source") or a
\* list created in the iteration for alternative n (owner "split").
Put(acc, key, val, obj) ==
    [acc EXCEPT !.info_dict = Append(@, [key |-> key, val |-> val, obj |-> obj])]

Raise(acc, error, where) == [acc EXCEPT !.error = error, !.where = where]

\* Lines 58-101: one key of the source's info_dict, for alternative n.
InfoStep(vd, md, n, alternative, e, acc) ==
    LET info == e.key
        v == e.val
        src == [owner |-> "source", n |-> 0, key |-> info]
        new == [owner |-> "split", n |-> n, key |-> info]
    IN  IF info = "" THEN Put(acc, info, <<>>, new)
        ELSE
        LET look == NumberOf(md, info, acc.number_of_values)
            a1 == [acc EXCEPT !.number_of_values = look.number]
        IN  IF look.error # NoError THEN Raise(acc, look.error, look.where)
            ELSE IF info = "CSQ" THEN
                IF alternative \in DOMAIN vd.vep_info
                THEN [Put(a1, "CSQ", <<build_vep_string(vd.vep_info[alternative])>>, new)
                        EXCEPT !.vep_dict = [a \in {alternative} |-> vd.vep_info[a]]]
                ELSE a1
            ELSE IF look.number = "A" THEN
                IF InRange(v, n) THEN Put(a1, info, <<At(v, n)>>, new)
                ELSE IF InRange(v, 0) THEN Put(a1, info, <<At(v, 0)>>, new)
                ELSE Raise(a1, "IndexError", 84)
            ELSE IF look.number = "R" THEN
                IF ~InRange(v, 0) THEN Raise(a1, "IndexError", 87)
                ELSE IF InRange(v, n + 1)
                    THEN Put(a1, info, <<At(v, 0), At(v, n + 1)>>, new)
                ELSE a1
            ELSE Put(a1, info, v, src)

RECURSIVE InfoLoop(_, _, _, _, _, _)
\* Line 57: the loop over the source's keys, in order, until one raises.
InfoLoop(vd, md, n, alternative, j, acc) ==
    IF acc.error # NoError \/ j > Len(vd.info_dict) THEN acc
    ELSE InfoLoop(vd, md, n, alternative, j + 1,
                  InfoStep(vd, md, n, alternative, vd.info_dict[j], acc))

\* Lines 41-46: the ID of the split record.
SplitId(id, n) ==
    LET ids == StrSplit(id, ";")
    IN  IF InRange(ids, n) THEN At(ids, n) ELSE id

\* Lines 34-123: one pass of the loop for alternative n, from the top of the
\* body to the yield or to the exception that ends the generator.
SplitBody(vd, n, md, number_of_values) ==
    LET alternatives == StrSplit(vd.ALT, ",")
        alternative == At(alternatives, n)
        acc == InfoLoop(vd, md, n, alternative, 1,
                        [error |-> NoError, where |-> 0, info_dict |-> <<>>,
                         vep_dict |-> <<>>, number_of_values |-> number_of_values])
        individuals == DOMAIN vd.samples
        new_genotype == [ind \in individuals |->
                            split_genotype(vd.samples[ind], vd.FORMAT, n)]
        variant ==
            [CHROM |-> vd.CHROM, POS |-> vd.POS, ID |-> SplitId(vd.ID, n),
             REF |-> vd.REF, ALT |-> alternative, QUAL |-> vd.QUAL,
             FILTER |-> vd.FILTER, FORMAT |-> vd.FORMAT,
             samples |-> new_genotype,
             info_dict |-> acc.info_dict, vep_info |-> acc.vep_dict,
             genotypes |-> [ind \in individuals |->
                              Genotype(StrSplit(new_genotype[ind], ":")[1])],
             variant_id |-> StrJoin(<<vd.CHROM, vd.POS, vd.REF, alternative>>, "_")]
        out(error, where, v) ==
            [error |-> error, where |-> where, variant |-> v,
             info_dict |-> acc.info_dict, number_of_values |-> acc.number_of_values]
    IN  IF acc.error # NoError THEN out(acc.error, acc.where, NoObject)
        ELSE IF "build_info_string" \notin SplitGlobals
            THEN out("NameError", 103, NoObject)
        ELSE IF individuals # {} /\ vd.FORMAT = Absent
            THEN out("KeyError", 108, NoObject)
        ELSE IF individuals # {} /\ {"Genotype", "gt_format"} \ SplitGlobals # {}
            THEN out("NameError", 113, NoObject)
        ELSE out(NoError, 0, variant)

\* split_variants(variant_dict, metadata): the generator object, no line of
\* the body run yet (lines 29-31 run on the first next()).
SplitInit ==
    /\ \E id \in IdStrings, alt \in AltStrings, info \in InfoDicts,
          vep \in VepInfos, samples \in SampleMaps :
        variant_dict = SourceRecord(id, alt, info, vep, samples)
    /\ metadata \in {None, Header}
    /\ gen = [state |-> "created", alternative_number |-> 0,
              number_of_values |-> "1", info_dict |-> <<>>,
              error |-> NoError, where |-> 0]
    /\ yielded = <<>>

\* next() on the generator: the body runs to the next yield, to the end of
\* the loop (StopIteration) or to an exception.
SplitNext ==
    /\ gen.state \in {"created", "suspended"}
    /\ LET n == gen.alternative_number
           K == Len(StrSplit(variant_dict.ALT, ","))
       IN  IF n >= K
           THEN /\ gen' = [gen EXCEPT !.state = "done"]
                /\ UNCHANGED yielded
           ELSE LET r == SplitBody(variant_dict, n, metadata, gen.number_of_values)
                IN  IF r.error # NoError
                    THEN /\ gen' = [gen EXCEPT !.state = "raised",
                                        !.number_of_values = r.number_of_values,
                                        !.info_dict = r.info_dict,
                                        !.error = r.error, !.where = r.where]
                         /\ UNCHANGED yielded
                    ELSE /\ gen' = [gen EXCEPT !.state = "suspended",
                                        !.alternative_number = n + 1,
                                        !.number_of_values = r.number_of_values,
                                        !.info_dict = r.info_dict]
                         /\ yielded' = Append(yielded, r.variant)
    /\ UNCHANGED <<variant_dict, metadata>>

(***************************************************************************)
(* parser.py                                                               *)
(***************************************************************************)
\* A line of the input after rstrip(): what startswith() and
\* len(line.split('\t')) see of it, and the number of alternatives of its ALT
\* column. readline() at the end of the input returns '', which is BlankLine.
MetaLine == [kind |-> "##", cols |-> 1, alts |-> 0]
HeaderLine == [kind |-> "#", cols |-> 9, alts |-> 0]
BlankLine == [kind |-> "blank", cols |-> 1, alts |-> 0]
ShortLine == [kind |-> "data", cols |-> 3, alts |-> 0]
DataLine(k) == [kind |-> "data", cols |-> 8, alts |-> k]

DataLines == {BlankLine, ShortLine, DataLine(1), DataLine(2)}
\* The inputs: the header lines, then up to MaxLines other lines.
Inputs ==
    {<<MetaLine, HeaderLine>> \o body :
        body \in UNION {[1..n -> DataLines] : n \in 0..MaxLines}}

\* self.vcf.readline().rstrip() at read position pos.
Readline(lines, pos) == IF pos < Len(lines) THEN lines[pos + 1] ELSE BlankLine
Advance(lines, pos) == IF pos < Len(lines) THEN pos + 1 ELSE pos
StartsWithHash(line) == line.kind \in {"##", "#"}

RECURSIVE HeaderLoop(_, _, _, _)
\* Lines 130-135: the header lines are handed to the HeaderParser, each read
\* replacing next_line, until next_line is no header line.
HeaderLoop(lines, pos, next_line, md) ==
    IF ~StartsWithHash(next_line) THEN [pos |-> pos, next_line |-> next_line, metadata |-> md]
    ELSE HeaderLoop(lines, Advance(lines, pos), Readline(lines, pos),
                    IF next_line.kind = "##"
                    THEN [md EXCEPT !.parse_meta_data = @ + 1]
                    ELSE [md EXCEPT !.parse_header_line = @ + 1])

\* Lines 115-139: VCFParser.__init__ once self.vcf is open. The result holds the
\* object's fields and the read position the constructor leaves the input at.
VCFParser_init(lines, split) ==
    LET first == Readline(lines, 0)
        h == HeaderLoop(lines, Advance(lines, 0), first,
                        [parse_meta_data |-> 1, parse_header_line |-> 0])
    IN  [pos |-> h.pos,
         self |-> [split_variants |-> split, metadata |-> h.metadata,
                   next_line |-> h.next_line, current_line |-> first,
                   beginning |-> TRUE]]

\* A yielded variant: the line it was decoded from (its number in the input)
\* and which of the line's alternatives it holds (0: the ALT column as it is).
Variant(lineno, alt) == [line |-> lineno, alt |-> alt]

\* Lines 143-172: the body of the loop for the line with number lineno, up to
\* the yields. With self.beginning set, line 150 reads the name 'next_line',
\* which is neither a local of __iter__ nor bound by the module. The first
\* next() on split_variants raises for every record (SplitBody).
IterBody(self, line, lineno) ==
    IF self.beginning
    THEN [error |-> "NameError", where |-> 150, variants |-> <<>>]
    ELSE IF line.cols >= 8
    THEN IF ~(self.split_variants /\ line.alts > 1)
         THEN [error |-> NoError, where |-> 0, variants |-> <<Variant(lineno, 0)>>]
         ELSE [error |-> "NameError", where |-> 171, variants |-> <<>>]
    ELSE [error |-> NoError, where |-> 0, variants |-> <<>>]

RECURSIVE IterLoop(_, _, _)
\* Lines 142-175: 'for line in self.vcf' from read position pos, up to the
\* first yield, the end of the input or an exception. A line that leaves
\* 'variants' empty yields nothing and the loop goes on to the next line.
IterLoop(self, lines, pos) ==
    IF pos >= Len(lines)
    THEN [state |-> "done", pos |-> pos, variants |-> <<>>,
          error |-> NoError, where |-> 0]
    ELSE LET b == IterBody(self, lines[pos + 1], pos + 1)
         IN  IF b.error # NoError
             THEN [state |-> "raised", pos |-> pos + 1, variants |-> <<>>,
                   error |-> b.error, where |-> b.where]
             ELSE IF b.variants = <<>> THEN IterLoop(self, lines, pos + 1)
             ELSE [state |-> "suspended", pos |-> pos + 1, variants |-> b.variants,
                   error |-> NoError, where |-> 0]

NoGenerator ==
    [state |-> "none", variants |-> <<>>, out |-> <<>>, error |-> NoError, where |-> 0]

ParserInit ==
    /\ vcf \in [lines : Inputs, pos : {0}]
    /\ parser = NoObject
    /\ it = NoGenerator

\* VCFParser(infile, split_variants=split)
VCFParserNew ==
    /\ parser = NoObject
    /\ \E split \in BOOLEAN :
        LET r == VCFParser_init(vcf.lines, split)
        IN  /\ parser' = r.self
            /\ vcf' = [vcf EXCEPT !.pos = r.pos]
    /\ UNCHANGED it

\* iter(parser): the generator of __iter__, no line of it run yet.
Iter ==
    /\ parser # NoObject
    /\ it.state = "none"
    /\ it' = [it EXCEPT !.state = "created"]
    /\ UNCHANGED <<vcf, parser>>

\* next() on the generator: the pending variants of the current line are
\* yielded one by one (lines 174-175), then the loop reads on.
IterNext ==
    /\ it.state \in {"created", "suspended"}
    /\ IF it.variants # <<>>
       THEN /\ it' = [it EXCEPT !.state = "suspended",
                               !.out = Append(@, Head(it.variants)),
                               !.variants = Tail(@)]
            /\ UNCHANGED vcf
       ELSE LET r == IterLoop(parser, vcf.lines, vcf.pos)
            IN  /\ vcf' = [vcf EXCEPT !.pos = r.pos]
                /\ it' = IF r.state = "suspended"
                         THEN [it EXCEPT !.state = "suspended",
                                         !.out = Append(@, Head(r.variants)),
                                         !.variants = Tail(r.variants)]
                         ELSE [it EXCEPT !.state = r.state, !.error = r.error,
                                         !.where = r.where]
    /\ UNCHANGED parser

(***************************************************************************)
(* Specifications                                                          *)
(***************************************************************************)
GenotypeIdle == GT = <<>> /\ genotype_obj = NoObject
SplitIdle ==
    /\ variant_dict = NoObject
    /\ metadata = None
    /\ gen = NoObject
    /\ yielded = <<>>
ParserIdle == vcf = [lines |-> <<>>, pos |-> 0] /\ parser = NoObject /\ it = NoGenerator

\* split_variants driven by a consumer.
Init == SplitInit /\ GenotypeIdle /\ ParserIdle
Next == SplitNext /\ UNCHANGED <<gvars, pvars>>
Spec == Init /\ [][Next]_vars

\* Genotype construction.
InitGenotype == GenotypeInit /\ SplitIdle /\ ParserIdle
NextGenotype == GenotypeCall /\ UNCHANGED <<svars, pvars>>
SpecGenotype == InitGenotype /\ [][NextGenotype]_vars

\* VCFParser constructed on an input and iterated once.
InitParser == ParserInit /\ GenotypeIdle /\ SplitIdle
NextParser ==
    \/ VCFParserNew /\ UNCHANGED <<gvars, svars>>
    \/ Iter /\ UNCHANGED <<gvars, svars>>
    \/ IterNext /\ UNCHANGED <<gvars, svars>>
SpecParser == InitParser /\ [][NextParser]_vars

(***************************************************************************)
(* Properties                                                              *)
(***************************************************************************)
Alternatives == StrSplit(variant_dict.ALT, ",")
SplitFinished == gen.state \in {"done", "raised"}
SourceKeys == Keys(variant_dict.info_dict)
Declared(k) == metadata # None /\ k \in DOMAIN metadata.extra_info
\* The entries of d that store key k.
EntriesOf(d, k) == {d[j] : j \in {i \in 1..Len(d) : d[i].key = k}}
Flags(g) == {f \in {"homo_ref", "homo_alt", "heterozygote"} : g[f]}

\* C1: once the split of a record whose keys are all declared has ended, the
\* consumer has received exactly one record per comma-separated alternative,
\* the i-th with ALT equal to the i-th alternative alone, and each with the
\* CHROM, POS and REF of the source record.
C1_OneRecordPerAlternative ==
    (SplitFinished /\ \A k \in SourceKeys : Declared(k)) =>
        /\ Len(yielded) = Len(Alternatives)
        /\ \A i \in 1..Len(yielded) :
            /\ yielded[i].ALT = Alternatives[i]
            /\ yielded[i].CHROM = variant_dict.CHROM
            /\ yielded[i].POS = variant_dict.POS
            /\ yielded[i].REF = variant_dict.REF

\* C2: for the key AF, declared with Number 'A', with value list v, the split
\* record of alternative i carries the single value v[i], or the one entry of
\* v when v has exactly one.
C2_PerAltAlleleValue ==
    (SplitFinished /\ metadata = Header /\ SourceKeys = {"AF"}) =>
        LET v == ValueOf(variant_dict.info_dict, "AF")
        IN  /\ Len(yielded) = Len(Alternatives)
            /\ \A i \in 1..Len(yielded) :
                \A e \in EntriesOf(yielded[i].info_dict, "AF") :
                    /\ Len(v) = 1 => e.val = <<v[1]>>
                    /\ (Len(v) # 1 /\ i <= Len(v)) => e.val = <<v[i]>>
            /\ \A i \in 1..Len(yielded) :
                (Len(v) = 1 \/ i <= Len(v)) =>
                    Cardinality(EntriesOf(yielded[i].info_dict, "AF")) = 1

\* C3: for the key AD, declared with Number 'R', with any value list v (the
\* empty one and those shorter than K+1 too), the split raises no error and
\* the split record of alternative i carries [v[0], v[i+1]] when v[i+1]
\* exists and has no AD key otherwise.
C3_PerAlleleValue ==
    (SplitFinished /\ metadata = Header /\ SourceKeys = {"AD"}) =>
        LET v == ValueOf(variant_dict.info_dict, "AD")
        IN  /\ gen.error = NoError
            /\ Len(yielded) = Len(Alternatives)
            /\ \A i \in 1..Len(yielded) :
                IF i + 1 <= Len(v)
                THEN \E e \in EntriesOf(yielded[i].info_dict, "AD") :
                        e.val = <<v[1], v[i + 1]>>
                ELSE EntriesOf(yielded[i].info_dict, "AD") = {}

\* C4: when a key of the source record has no cardinality declaration, the
\* split ends in an error, no record has been yielded, and the key was never
\* stored by the copy-unchanged default (the source's own list under the key).
C4_UndeclaredKeyAborts ==
    \A k \in SourceKeys :
        (SplitFinished /\ k # "" /\ ~Declared(k)) =>
            /\ gen.state = "raised"
            /\ yielded = <<>>
            /\ \A e \in EntriesOf(gen.info_dict, k) : e.obj.owner # "source"

\* C5: every constructed Genotype has exactly one of homo_ref, homo_alt and
\* heterozygote set, or none of them and genotyped false; and has_variant is
\* homo_alt or heterozygote.
C5_ExactlyOneZygosity ==
    genotype_obj # NoObject =>
        /\ \/ Cardinality(Flags(genotype_obj)) = 1
           \/ Flags(genotype_obj) = {} /\ ~genotype_obj.genotyped
        /\ genotype_obj.has_variant =
            (genotype_obj.homo_alt \/ genotype_obj.heterozygote)

\* A Genotype built from a two-allele token with equal non-reference alleles.
C5_Witness ==
    /\ genotype_obj # NoObject
    /\ GT = <<"1", "|", "1">>
    /\ Flags(genotype_obj) = {"homo_alt"}

\* The lines of the input after the header lines.
Body(lines) == SelectSeq(lines, LAMBDA l : ~StartsWithHash(l))
IterFinished == it.state \in {"done", "raised"}
RECURSIVE Expected(_, _, _)
\* The variants of the lines from number lineno on: one per line, or one per
\* alternative of the line when splitting is on and the line has several.
Expected(lines, lineno, split) ==
    IF lineno > Len(lines) THEN <<>>
    ELSE LET l == lines[lineno]
             here == IF StartsWithHash(l) THEN <<>>
                     ELSE IF split /\ l.alts > 1
                     THEN [i \in 1..l.alts |-> Variant(lineno, i)]
                     ELSE <<Variant(lineno, 0)>>
         IN  here \o Expected(lines, lineno + 1, split)

\* C6: for an input of header lines followed by n >= 1 data lines of at least
\* 8 columns, the iteration ends normally and has yielded the records of the
\* data lines in input order, one per line, or one per alternative of the line
\* when splitting is enabled.
C6_OneRecordPerDataLine ==
    (/\ IterFinished
     /\ Len(Body(vcf.lines)) >= 1
     /\ \A i \in 1..Len(Body(vcf.lines)) : Body(vcf.lines)[i].cols >= 8) =>
        /\ it.state = "done"
        /\ it.out = Expected(vcf.lines, 1, parser.split_variants)

\* C7: when the input holds a non-blank data line with fewer than 8 columns,
\* the iteration ends in an error that reaches the caller.
C7_ShortLineFails ==
    (IterFinished /\ \E i \in 1..Len(vcf.lines) : vcf.lines[i] = ShortLine) =>
        it.state = "raised"

\* The GT token of a sample relative to alternative n (from 0): the allele
\* index n+1 becomes 1, every other index becomes 0.
Reencoded(tok, n) ==
    [j \in 1..Len(tok) |->
        IF tok[j] \in {"/", "|", "."} THEN tok[j]
        ELSE IF tok[j] = Digits[n + 1] THEN "1" ELSE "0"]

\* C8: on the i-th split record every sample of the source record has the
\* Genotype decoded from its token re-encoded relative to i, and no other
\* sample has one.
C8_GenotypesReencoded ==
    (SplitFinished /\ (\A k \in SourceKeys : Declared(k))
                   /\ DOMAIN variant_dict.samples # {}) =>
        /\ Len(yielded) = Len(Alternatives)
        /\ \A i \in 1..Len(yielded) :
            /\ DOMAIN yielded[i].genotypes = DOMAIN variant_dict.samples
            /\ \A s \in DOMAIN variant_dict.samples :
                yielded[i].genotypes[s] =
                    Genotype(Reencoded(variant_dict.samples[s], i - 1))

\* C9: no value list of an annotation mapping built for a split record is a
\* list of the source record, and no two split records hold the same list.
C9_NoSharedValueList ==
    /\ \A j \in 1..Len(gen.info_dict) : gen.info_dict[j].obj.owner # "source"
    /\ \A i \in 1..Len(yielded) :
        \A j \in 1..Len(yielded[i].info_dict) :
            /\ yielded[i].info_dict[j].obj.owner # "source"
            /\ \A i2 \in 1..Len(yielded) : \A j2 \in 1..Len(yielded[i2].info_dict) :
                yielded[i].info_dict[j].obj = yielded[i2].info_dict[j2].obj => i = i2

\* A single allele, or two alleles around a separator; an allele is an index
\* or the missing marker.
WellFormed(tok) ==
    LET allele == {"0", "1", "2", "."}
    IN  \/ Len(tok) = 1 /\ tok[1] \in allele
        \/ Len(tok) = 3 /\ tok[1] \in allele /\ tok[2] \in {"/", "|"} /\ tok[3] \in allele

\* C10: a Genotype built from a haploid or two-allele token is heterozygote
\* only if its two alleles differ and neither is the missing marker '.'.
C10_HeterozygoteBothCalled ==
    (genotype_obj # NoObject /\ WellFormed(GT) /\ genotype_obj.heterozygote) =>
        /\ genotype_obj.allele_1 # genotype_obj.allele_2
        /\ genotype_obj.allele_1 # <<".">>
        /\ genotype_obj.allele_2 # <<".">>

====
